---- MODULE Spec2Model ----
(***************************************************************************)
(* Model of the USA research data service:                                 *)
(*   flask_api_usa.py            the HTTP views over the cached table and  *)
(*                               the load_data / reload_data cache         *)
(*   fetch_usa_research_data.py  the hierarchical collector                *)
(*                                                                         *)
(* Three specifications share the definitions below:                      *)
(*   Spec         request handlers running as threads of one process,     *)
(*                interleaved statement by statement with each other and  *)
(*                with changes of the persisted table                     *)
(*   SpecQuery    one handler at a time over a larger universe of tables  *)
(*   SpecCollect  one collection run against a source that may answer     *)
(*                every grouped query in any way                          *)
(***************************************************************************)
EXTENDS Integers, Sequences, FiniteSets, TLC

\* ------------------------------------------------------------------ bounds
NThreads == 2          \* request handlers in flight at once (Spec)
MaxRows == 2           \* rows of a persisted table (SpecQuery)
MaxGroups == 2         \* groups the source returns to one query (SpecCollect)
NumFields == 2         \* entries of TARGET_FIELDS walked (SpecCollect)

\* ------------------------------------------------------- program constants
SubfieldsCap == 20     \* .head(20) of the Subfields view
FundersCap == 20       \* .head(20) of the Funders view
TopicsCap == 10        \* [:10] of the Topics view
FetchSubfieldCap == 20 \* subfield_groups[:20]
FetchFunderCap == 20   \* funder_groups[:20]
FetchTopicCap == 10    \* topic_groups[:10]

\* ----------------------------------------------------------- sequence help
Head_n(s, n) == IF Len(s) <= n THEN s ELSE SubSeq(s, 1, n)

Range(s) == { s[i] : i \in 1..Len(s) }

\* The strings of the model in the order Python compares them.
Alphabet == << "A", "B", "C", "Chem", "Comp", "F1", "F2", "S1", "S2" >>
StrRank(x) == CHOOSE i \in 1..Len(Alphabet) : Alphabet[i] = x
StrLt(a, b) == StrRank(a) < StrRank(b)

\* ------------------------------------------------------------- data model
\* One entry of a row's embedded topic list once parsed.  kind "topic" is a
\* dict with topic_id, topic_name and topic_works_count; kind "other" is any
\* other Python value (a number, a character, a dict without those keys).
Topic(id, name, n) ==
    [kind |-> "topic", topic_id |-> id, topic_name |-> name, topic_works_count |-> n]
OtherItem ==
    [kind |-> "other", topic_id |-> "", topic_name |-> "", topic_works_count |-> 0]

\* The text of a row's `topics` cell, by what ast.literal_eval makes of it:
\*   "nan"     empty cell, read by pandas as the float NaN
\*   "garbage" text that is no Python literal
\*   "scalar"  a literal that is not iterable (a number)
\*   "list"    a literal list (or other iterable) of the given items
TopicsText(form, items) == [form |-> form, items |-> items]

Row(fid, fname, sid, sname, swc, funder, funder_name, fwc, topics) ==
    [field_id |-> fid, field_name |-> fname,
     subfield_id |-> sid, subfield_name |-> sname, subfield_works_count |-> swc,
     funder_id |-> funder, funder_name |-> funder_name, funder_works_count |-> fwc,
     topics |-> topics]

ListA == << Topic("T1", "A", 3), Topic("T2", "B", 1) >>
ListB == << Topic("T1", "B", 7), Topic("T3", "C", 2) >>
ListDup == << Topic("T2", "A", 1), Topic("T2", "B", 4) >>
ListBad == << Topic("T1", "A", 3), OtherItem >>
ListEleven ==
    << Topic("T1", "A", 3), Topic("T2", "A", 12), Topic("T3", "A", 5),
       Topic("T4", "A", 9), Topic("T5", "A", 1), Topic("T6", "A", 8),
       Topic("T7", "A", 6), Topic("T8", "A", 11), Topic("T9", "A", 4),
       Topic("T10", "A", 10), Topic("T11", "A", 2) >>

RowA == Row(1, "Chem", 1, "S1", 9, "F1", "A", 5, TopicsText("list", ListA))
RowB == Row(1, "Chem", 1, "S1", 9, "F1", "B", 3, TopicsText("list", ListB))
RowC == Row(2, "Comp", 1, "S1", 4, "F1", "A", 5, TopicsText("garbage", << >>))
RowD == Row(1, "Chem", 1, "S1", 9, "F1", "A", 5, TopicsText("nan", << >>))
RowE == Row(1, "Chem", 1, "S1", 9, "F1", "A", 5, TopicsText("scalar", << >>))
RowF == Row(1, "Chem", 1, "S1", 9, "F1", "A", 5, TopicsText("list", ListBad))
RowG == Row(1, "Chem", 1, "S1", 9, "F1", "A", 5, TopicsText("list", ListEleven))
RowH == Row(1, "Chem", 1, "S1", 4, "F2", "C", 8, TopicsText("list", ListDup))

Rows == { RowA, RowB, RowC, RowD, RowE, RowF, RowG, RowH }

\* A pandas DataFrame, or None.
NoData == [df |-> FALSE, rows |-> << >>]
DataFrame(rows) == [df |-> TRUE, rows |-> rows]
IsNone(d) == ~d.df
IsEmpty(d) == Len(d.rows) = 0

\* The persisted table data/usa_research_data.csv.
MissingFile == [state |-> "missing", rows |-> << >>]
MalformedFile == [state |-> "malformed", rows |-> << >>]
TableFile(rows) == [state |-> "table", rows |-> rows]

Tables(n) == UNION { [1..k -> Rows] : k \in 0..n }
QueryFiles == { MissingFile, MalformedFile } \cup { TableFile(r) : r \in Tables(MaxRows) }
ServerFiles ==
    { MissingFile, TableFile(<< RowA >>), TableFile(<< RowH, RowC >>) }

\* pd.read_csv(csv_path): raises when the file is missing or is no table.
ReadCsvRaises(f) == f.state # "table"
ReadCsv(f) == DataFrame(f.rows)

\* ---------------------------------------------------------------- requests
\* request.args.get(name): None, or the text given.
Absent == [given |-> FALSE, text |-> ""]
Given(s) == [given |-> TRUE, text |-> s]
\* Python's `not x` for None or str.
Not(arg) == ~arg.given \/ arg.text = ""

\* int(text): the value, or ValueError.
IntText == ("1" :> 1) @@ ("2" :> 2) @@ ("9" :> 9)
IntRaises(arg) == arg.text \notin DOMAIN IntText
IntOf(arg) == IntText[arg.text]

Request(kind, field_id, subfield_id, funder_id, topic_id) ==
    [kind |-> kind, field_id |-> field_id, subfield_id |-> subfield_id,
     funder_id |-> funder_id, topic_id |-> topic_id]
NoRequest == Request("none", Absent, Absent, Absent, Absent)

\* ---------------------------------------------------------------- responses
NoResponse == [status |-> 0, kind |-> "none", error |-> "", count |-> 0, data |-> << >>]
\* jsonify({'count': ..., 'data': ...}), 200
Listing(data) ==
    [status |-> 200, kind |-> "list", error |-> "", count |-> Len(data), data |-> data]
\* jsonify({'error': msg}), code
Error(code, msg) ==
    [status |-> code, kind |-> "error", error |-> msg, count |-> 0, data |-> << >>]
\* An exception that leaves the view function: the framework's 500.
Fault == [status |-> 500, kind |-> "fault", error |-> "", count |-> 0, data |-> << >>]
\* jsonify({'status': 'success', 'message': ...}), 200
ReloadSuccess ==
    [status |-> 200, kind |-> "reload", error |-> "", count |-> 0, data |-> << >>]
\* jsonify({'status': 'error', 'message': str(e)}), 500
ReloadError ==
    [status |-> 500, kind |-> "reload", error |-> "exception", count |-> 0, data |-> << >>]


\* -------------------------------------------------------- frame operations
\* The orders in which DataFrame.sort_values(key, ascending=False) may leave
\* the records G: descending by key, ties in an order pandas does not promise.
SortValuesDesc(G, key) ==
    { o \in [1..Cardinality(G) -> G] :
        /\ \A i, j \in DOMAIN o : i # j => o[i] # o[j]
        /\ \A i, j \in DOMAIN o : i < j => o[i][key] >= o[j][key] }

\* agg 'first': the first row of the rows of a group.
FirstRow(group) == Head(group)

\* agg 'nunique' of funder_id over the rows of a group.
NUniqueFunders(group) == Cardinality({ r.funder_id : r \in Range(group) })

RECURSIVE InsertDesc(_, _)
\* sorted(..., reverse=True) is stable: x goes behind every entry whose
\* topic_works_count is not smaller.
InsertDesc(sorted, x) ==
    IF sorted = << >> THEN << x >>
    ELSE IF Head(sorted).topic_works_count >= x.topic_works_count
         THEN << Head(sorted) >> \o InsertDesc(Tail(sorted), x)
         ELSE << x >> \o sorted

RECURSIVE SortedDesc(_)
SortedDesc(s) ==
    IF s = << >> THEN << >>
    ELSE InsertDesc(SortedDesc(SubSeq(s, 1, Len(s) - 1)), s[Len(s)])

\* ------------------------------------------------------------ Subfields view
\* data[data['field_id'] == int(field_id)]
FieldData(rows, fid) == SelectSeq(rows, LAMBDA r : r.field_id = fid)

\* groupby(['subfield_id', 'subfield_name']).agg(nunique, first), renamed.
SubfieldGroups(field_data) ==
    { [subfield_id |-> k[1], subfield_name |-> k[2],
       funder_count |->
           NUniqueFunders(SelectSeq(field_data,
               LAMBDA r : r.subfield_id = k[1] /\ r.subfield_name = k[2])),
       subfield_works_count |->
           FirstRow(SelectSeq(field_data,
               LAMBDA r : r.subfield_id = k[1] /\ r.subfield_name = k[2])).subfield_works_count]
      : k \in { << r.subfield_id, r.subfield_name >> : r \in Range(field_data) } }

\* data.groupby('subfield_id')['funder_id'].nunique().to_dict()
AllSubfieldFunders(rows) ==
    [ sid \in { r.subfield_id : r \in Range(rows) } |->
        NUniqueFunders(SelectSeq(rows, LAMBDA r : r.subfield_id = sid)) ]

\* all_subfield_funders.get(id, 0)
DictGet(d, k, default) == IF k \in DOMAIN d THEN d[k] ELSE default

SubfieldsList(subfields, all_subfield_funders) ==
    [ i \in 1..Len(subfields) |->
        [id |-> subfields[i].subfield_id,
         name |-> subfields[i].subfield_name,
         works_count |-> subfields[i].subfield_works_count,
         funder_count |-> subfields[i].funder_count,
         total_funders |-> DictGet(all_subfield_funders, subfields[i].subfield_id, 0)] ]

\* Lines 143-161 of get_subfields: the responses it may give for the grouped
\* frame `groups` with the totals taken from the rows `rows`.
SubfieldsFinish(groups, rows) ==
    { Listing(SubfieldsList(Head_n(o, SubfieldsCap), AllSubfieldFunders(rows)))
        : o \in SortValuesDesc(groups, "funder_count") }

\* The responses get_subfields may give once load_data() returned `data`.
get_subfields(req, data) ==
    IF IsNone(data) \/ IsEmpty(data) THEN { Error(500, "Data not loaded") }
    ELSE IF IntRaises(req.field_id) THEN { Fault }
    ELSE IF FieldData(data.rows, IntOf(req.field_id)) = << >> THEN { Listing(<< >>) }
    ELSE SubfieldsFinish(SubfieldGroups(FieldData(data.rows, IntOf(req.field_id))),
                         data.rows)

\* -------------------------------------------------------------- Funders view
\* data[data['subfield_id'] == int(subfield_id)]
SubfieldData(rows, sid) == SelectSeq(rows, LAMBDA r : r.subfield_id = sid)

\* groupby(['funder_id', 'funder_name']).agg({'funder_works_count': 'first'})
FunderGroups(subfield_data) ==
    { [id |-> k[1], name |-> k[2],
       works_count |->
           FirstRow(SelectSeq(subfield_data,
               LAMBDA r : r.funder_id = k[1] /\ r.funder_name = k[2])).funder_works_count]
      : k \in { << r.funder_id, r.funder_name >> : r \in Range(subfield_data) } }

get_funders(req, data) ==
    IF IsNone(data) \/ IsEmpty(data) THEN { Error(500, "Data not loaded") }
    ELSE IF IntRaises(req.subfield_id) THEN { Fault }
    ELSE IF SubfieldData(data.rows, IntOf(req.subfield_id)) = << >> THEN { Listing(<< >>) }
    ELSE { Listing(Head_n(o, FundersCap))
            : o \in SortValuesDesc(
                       FunderGroups(SubfieldData(data.rows, IntOf(req.subfield_id))),
                       "works_count") }

\* --------------------------------------------------------------- Topics view
\* ast.literal_eval(row['topics']): raises on NaN and on text that is no literal.
LiteralEvalRaises(text) == text.form \in { "nan", "garbage" }
\* all_topics.extend(topics): raises TypeError when topics is not iterable.
ExtendRaises(text) == text.form = "scalar"

RECURSIVE ExtractTopics(_)
\* Lines 227-233: the entries of every row whose cell parses and can be
\* iterated; a row whose cell raises is passed over.
ExtractTopics(rows) ==
    IF rows = << >> THEN << >>
    ELSE IF LiteralEvalRaises(Head(rows).topics) \/ ExtendRaises(Head(rows).topics)
         THEN ExtractTopics(Tail(rows))
         ELSE Head(rows).topics.items \o ExtractTopics(Tail(rows))

\* Mutant of Replaces: the comparison of line 243 turned round.
ReplacesLower(topic, kept) == topic.topic_works_count < kept.topic_works_count

\* if topic['topic_works_count'] > unique_topics[topic_id]['topic_works_count']
Replaces(topic, kept) == topic.topic_works_count > kept.topic_works_count

RECURSIVE UniqueTopics(_, _)
\* Lines 236-244: the dict unique_topics as its values in insertion order,
\* after the entries of all_topics were put into the dict `acc`.
UniqueTopics(acc, all_topics) ==
    IF all_topics = << >> THEN acc
    ELSE LET topic == Head(all_topics)
             at == { i \in DOMAIN acc : acc[i].topic_id = topic.topic_id }
         IN  IF at = { }
             THEN UniqueTopics(Append(acc, topic), Tail(all_topics))
             ELSE LET i == CHOOSE k \in at : TRUE
                  IN  IF Replaces(topic, acc[i])
                      THEN UniqueTopics([acc EXCEPT ![i] = topic], Tail(all_topics))
                      ELSE UniqueTopics(acc, Tail(all_topics))

\* topic['topic_id'] raises on an entry that is no topic dict.
SubscriptRaises(all_topics) == \E i \in DOMAIN all_topics : all_topics[i].kind # "topic"

\* data[(data['funder_id'] == funder_id) & (data['subfield_id'] == int(subfield_id))]
TopicRows(rows, funder, sid) ==
    SelectSeq(rows, LAMBDA r : r.funder_id = funder /\ r.subfield_id = sid)

topics_list(filtered_data) ==
    Head_n(SortedDesc(UniqueTopics(<< >>, ExtractTopics(filtered_data))), TopicsCap)

get_topics(req, data) ==
    IF IsNone(data) \/ IsEmpty(data) THEN { Error(500, "Data not loaded") }
    ELSE IF IntRaises(req.subfield_id) THEN { Fault }
    ELSE LET filtered_data ==
                 TopicRows(data.rows, req.funder_id.text, IntOf(req.subfield_id))
         IN  IF filtered_data = << >> THEN { Listing(<< >>) }
             ELSE IF SubscriptRaises(ExtractTopics(filtered_data)) THEN { Fault }
             ELSE { Listing(topics_list(filtered_data)) }


\* ----------------------------------------------------- combined research view
\* Lines 286-292: whether the row is kept for topic_id.  any() stops at the
\* first entry that matches; an entry before it that is no topic dict, a cell
\* that does not parse or cannot be iterated raise, and the row is passed over.
HasTopic(row, topic_id) ==
    /\ ~LiteralEvalRaises(row.topics)
    /\ ~ExtendRaises(row.topics)
    /\ \E i \in DOMAIN row.topics.items :
          /\ row.topics.items[i].kind = "topic"
          /\ row.topics.items[i].topic_id = topic_id
          /\ \A j \in 1..(i - 1) : row.topics.items[j].kind = "topic"

\* Lines 271-278: the filters given, each narrowing the rows the last left.
ApplyFilters(rows, req) ==
    LET byField == IF Not(req.field_id) THEN rows
                   ELSE FieldData(rows, IntOf(req.field_id))
        bySubfield == IF Not(req.subfield_id) THEN byField
                      ELSE SubfieldData(byField, IntOf(req.subfield_id))
    IN  IF Not(req.funder_id) THEN bySubfield
        ELSE SelectSeq(bySubfield, LAMBDA r : r.funder_id = req.funder_id.text)

ResearchKey(r) == << r.funder_id, r.funder_name, r.field_name, r.subfield_name >>

RECURSIVE KeyLt(_, _)
\* Tuples of strings in the order groupby sorts its keys.
KeyLt(a, b) ==
    IF a = << >> THEN FALSE
    ELSE IF Head(a) = Head(b) THEN KeyLt(Tail(a), Tail(b))
         ELSE StrLt(Head(a), Head(b))

\* agg 'first' skips null cells.
FirstTopics(rows) ==
    LET filled == SelectSeq(rows, LAMBDA r : r.topics.form # "nan")
    IN  IF filled = << >> THEN Head(rows).topics ELSE Head(filled).topics

\* Lines 300-317: one record per group, in the order of the group keys.
ResearchList(rows) ==
    LET keys == { ResearchKey(r) : r \in Range(rows) }
        order == CHOOSE o \in [1..Cardinality(keys) -> keys] :
                     \A i, j \in DOMAIN o : i < j => KeyLt(o[i], o[j])
        Group(k) == SelectSeq(rows, LAMBDA r : ResearchKey(r) = k)
    IN  [ i \in 1..Cardinality(keys) |->
            [funder_id |-> order[i][1], funder_name |-> order[i][2],
             field_name |-> order[i][3], subfield_name |-> order[i][4],
             funder_works_count |-> Head(Group(order[i])).funder_works_count,
             subfield_works_count |-> Head(Group(order[i])).subfield_works_count,
             topics |-> FirstTopics(Group(order[i]))] ]

get_research_data(req, data) ==
    IF IsNone(data) \/ IsEmpty(data) THEN { Error(500, "Data not loaded") }
    ELSE IF \/ ~Not(req.field_id) /\ IntRaises(req.field_id)
            \/ ~Not(req.subfield_id) /\ IntRaises(req.subfield_id)
         THEN { Fault }
    ELSE LET filtered_data == ApplyFilters(data.rows, req)
             topic_filtered ==
                 SelectSeq(filtered_data, LAMBDA r : HasTopic(r, req.topic_id.text))
         IN  IF filtered_data = << >> THEN { Listing(<< >>) }
             ELSE IF Not(req.topic_id) THEN { Listing(ResearchList(filtered_data)) }
             ELSE IF topic_filtered = << >> THEN { Listing(<< >>) }
             ELSE { Listing(ResearchList(topic_filtered)) }

\* ------------------------------------------------------------------ handlers
\* Mutant of MissingParameter: get_topics tests funder_id alone.
MissingParameterFunderOnly(req) ==
    CASE req.kind = "subfields" -> Not(req.field_id)
      [] req.kind = "funders" -> Not(req.subfield_id)
      [] req.kind = "topics" -> Not(req.funder_id)
      [] OTHER -> FALSE

\* The required filter a view finds missing (lines 120, 169, 210).
MissingParameter(req) ==
    CASE req.kind = "subfields" -> Not(req.field_id)
      [] req.kind = "funders" -> Not(req.subfield_id)
      [] req.kind = "topics" -> Not(req.funder_id) \/ Not(req.subfield_id)
      [] OTHER -> FALSE

MissingParameterResponse(req) ==
    CASE req.kind = "subfields" -> Error(400, "field_id parameter is required")
      [] req.kind = "funders" -> Error(400, "subfield_id parameter is required")
      [] OTHER -> Error(400, "Both funder_id and subfield_id parameters are required")

\* What a view may answer once load_data() returned `data`.
ViewResponses(req, data) ==
    CASE req.kind = "subfields" -> get_subfields(req, data)
      [] req.kind = "funders" -> get_funders(req, data)
      [] req.kind = "topics" -> get_topics(req, data)
      [] OTHER -> get_research_data(req, data)


\* --------------------------------------------------------------------- state
Threads == 1..NThreads

VARIABLES
    file,          \* the persisted table data/usa_research_data.csv
    data_cache,    \* the module's global data_cache
    pc,            \* per handler thread: the statement it is at
    req,           \* per thread: the request it serves
    df,            \* per thread: load_data's local df
    data,          \* per thread: what its load_data() call returned
    subfields,     \* per thread: get_subfields' grouped frame
    resp,          \* per thread: the response it gave
    read_failed,   \* history, per thread: pd.read_csv raised in its load_data()
    after_reload,  \* history, per thread: it began after a reload completed and
                   \* no reload has begun since
    last_read,     \* history: the frame of the latest pd.read_csv that succeeded
    reloaded,      \* history: whether a reload completed, and what its
                   \* reload_data() returned
    run            \* the collection run (SpecCollect)

program_vars == << file, data_cache, pc, req, df, data, subfields, resp >>
history_vars == << read_failed, after_reload, last_read, reloaded >>
server_vars == << program_vars, history_vars >>
vars == << server_vars, run >>

Views == { "subfields", "funders", "topics", "research" }

Subfields(field_id) == Request("subfields", field_id, Absent, Absent, Absent)
Funders(subfield_id) == Request("funders", Absent, subfield_id, Absent, Absent)
Topics(funder_id, subfield_id) == Request("topics", Absent, subfield_id, funder_id, Absent)
Reload == Request("reload", Absent, Absent, Absent, Absent)

ServerRequests == { Reload, Subfields(Given("1")) }

QueryRequests ==
    { Reload }
    \cup { Subfields(a) : a \in { Absent, Given("1"), Given("9"), Given("x") } }
    \cup { Funders(a) : a \in { Absent, Given(""), Given("1"), Given("9") } }
    \cup { Topics(f, a) : f \in { Absent, Given("F1"), Given("F2") },
                          a \in { Absent, Given("1"), Given("9") } }
    \cup { Request("research", f, a, g, t) :
             f \in { Absent, Given("1") }, a \in { Absent, Given("9") },
             g \in { Absent, Given("F2") }, t \in { Absent, Given("T2") } }

ServerInit(files) ==
    /\ file \in files
    /\ data_cache = NoData
    /\ pc = [t \in Threads |-> "idle"]
    /\ req = [t \in Threads |-> NoRequest]
    /\ df = [t \in Threads |-> NoData]
    /\ data = [t \in Threads |-> NoData]
    /\ subfields = [t \in Threads |-> { }]
    /\ resp = [t \in Threads |-> NoResponse]
    /\ read_failed = [t \in Threads |-> FALSE]
    /\ after_reload = [t \in Threads |-> FALSE]
    /\ last_read = NoData
    /\ reloaded = [done |-> FALSE, data |-> NoData]

NoRun == [pc |-> "off"]

Init == ServerInit(ServerFiles) /\ run = NoRun

\* ------------------------------------------------------------------- actions
\* The data file is replaced (a collection run saved a new table, the file
\* was removed, ...).
Mutate(files) ==
    /\ file' \in files \ { file }
    /\ UNCHANGED << data_cache, pc, req, df, data, subfields, resp, run >>

\* A thread that is free (it has sent its last response, if any) takes the
\* next request and its view function reads the request's parameters
\* (lines 118-121, 167-170, 207-211): a view that misses a required filter
\* answers 400 at once.
Begin(t, r) ==
    /\ pc[t] \in { "idle", "done" }
    /\ req' = [req EXCEPT ![t] = r]
    /\ data' = [data EXCEPT ![t] = NoData]
    /\ IF MissingParameter(r)
       THEN /\ resp' = [resp EXCEPT ![t] = MissingParameterResponse(r)]
            /\ pc' = [pc EXCEPT ![t] = "done"]
       ELSE /\ resp' = [resp EXCEPT ![t] = NoResponse]
            /\ pc' = [pc EXCEPT ![t] = IF r.kind = "reload" THEN "clear" ELSE "load"]
    /\ UNCHANGED << file, data_cache, df, subfields, run >>

\* reload_data, line 33: data_cache = None
ReloadClear(t) ==
    /\ pc[t] = "clear"
    /\ data_cache' = NoData
    /\ pc' = [pc EXCEPT ![t] = "load"]
    /\ UNCHANGED << file, req, df, data, subfields, resp, run >>

\* load_data, line 17: if data_cache is not None
LoadTest(t) ==
    /\ pc[t] = "load"
    /\ pc' = [pc EXCEPT ![t] = IF IsNone(data_cache) THEN "read" ELSE "return"]
    /\ UNCHANGED << file, data_cache, req, df, data, subfields, resp, run >>

\* load_data, lines 20-22 and 26-28: df = pd.read_csv(csv_path); an exception
\* is caught and load_data returns None.
LoadRead(t) ==
    /\ pc[t] = "read"
    /\ IF ReadCsvRaises(file)
       THEN /\ data' = [data EXCEPT ![t] = NoData]
            /\ pc' = [pc EXCEPT ![t] = "loaded"]
            /\ UNCHANGED df
       ELSE /\ df' = [df EXCEPT ![t] = ReadCsv(file)]
            /\ pc' = [pc EXCEPT ![t] = "store"]
            /\ UNCHANGED data
    /\ UNCHANGED << file, data_cache, req, subfields, resp, run >>

\* load_data, line 23: data_cache = df
LoadStore(t) ==
    /\ pc[t] = "store"
    /\ data_cache' = df[t]
    /\ df' = [df EXCEPT ![t] = NoData]
    /\ pc' = [pc EXCEPT ![t] = "return"]
    /\ UNCHANGED << file, req, data, subfields, resp, run >>

\* load_data, lines 18 and 25: return data_cache (the global, read again)
LoadReturn(t) ==
    /\ pc[t] = "return"
    /\ data' = [data EXCEPT ![t] = data_cache]
    /\ pc' = [pc EXCEPT ![t] = "loaded"]
    /\ UNCHANGED << file, data_cache, req, df, subfields, resp, run >>

\* load_data catches every exception, so reload_data() never raises and the
\* except branch of reload (lines 333-337) is never taken.
ReloadDataRaises(t) == FALSE

\* reload, lines 327-337
ReloadRespond(t) ==
    /\ pc[t] = "loaded"
    /\ req[t].kind = "reload"
    /\ resp' = [resp EXCEPT ![t] =
                   IF ReloadDataRaises(t) THEN ReloadError ELSE ReloadSuccess]
    /\ pc' = [pc EXCEPT ![t] = "done"]
    /\ UNCHANGED << file, data_cache, req, df, data, subfields, run >>

\* get_subfields, lines 124-139: the checks of `data`, the filter by field and
\* the grouping into the frame `subfields`.
SubfieldsGroup(t) ==
    /\ pc[t] = "loaded"
    /\ req[t].kind = "subfields"
    /\ IF \/ IsNone(data[t]) \/ IsEmpty(data[t])
          \/ IntRaises(req[t].field_id)
          \/ FieldData(data[t].rows, IntOf(req[t].field_id)) = << >>
       THEN /\ resp' \in { [resp EXCEPT ![t] = x] : x \in get_subfields(req[t], data[t]) }
            /\ pc' = [pc EXCEPT ![t] = "done"]
            /\ UNCHANGED subfields
       ELSE /\ subfields' = [subfields EXCEPT ![t] =
                   SubfieldGroups(FieldData(data[t].rows, IntOf(req[t].field_id)))]
            /\ pc' = [pc EXCEPT ![t] = "totals"]
            /\ UNCHANGED resp
    /\ UNCHANGED << file, data_cache, req, df, data, run >>

\* Mutant of TotalsSource: line 143 reads the global data_cache again.
TotalsSourceShared(t) == IF IsNone(data_cache) THEN data[t] ELSE data_cache

\* The frame line 143 of get_subfields groups: the handler's local `data`.
TotalsSource(t) == data[t]

\* get_subfields, lines 143-161
SubfieldsTotals(t) ==
    /\ pc[t] = "totals"
    /\ resp' \in { [resp EXCEPT ![t] = x] :
                     x \in SubfieldsFinish(subfields[t], TotalsSource(t).rows) }
    /\ subfields' = [subfields EXCEPT ![t] = { }]
    /\ pc' = [pc EXCEPT ![t] = "done"]
    /\ UNCHANGED << file, data_cache, req, df, data, run >>

\* get_funders, get_topics, get_research_data after their load_data() call.
Compute(t) ==
    /\ pc[t] = "loaded"
    /\ req[t].kind \in Views \ { "subfields" }
    /\ resp' \in { [resp EXCEPT ![t] = x] : x \in ViewResponses(req[t], data[t]) }
    /\ pc' = [pc EXCEPT ![t] = "done"]
    /\ UNCHANGED << file, data_cache, req, df, data, subfields, run >>

\* The program alone: the history variables are not kept.
Unobserved == UNCHANGED history_vars

\* Request handlers as threads of one process, a statement at a time.
Next ==
    \/ Mutate(ServerFiles) /\ Unobserved
    \/ \E t \in Threads, r \in ServerRequests : Begin(t, r) /\ Unobserved
    \/ \E t \in Threads : ReloadClear(t) /\ Unobserved
    \/ \E t \in Threads : LoadTest(t) /\ Unobserved
    \/ \E t \in Threads : LoadRead(t) /\ Unobserved
    \/ \E t \in Threads : LoadStore(t) /\ Unobserved
    \/ \E t \in Threads : LoadReturn(t) /\ Unobserved
    \/ \E t \in Threads : ReloadRespond(t) /\ Unobserved
    \/ \E t \in Threads : SubfieldsGroup(t) /\ Unobserved
    \/ \E t \in Threads : SubfieldsTotals(t) /\ Unobserved

Spec == Init /\ [][Next]_vars

\* ------------------------------------------------------------------- history
\* Thread t takes a request in this step.
Begins(t) == pc[t] \in { "idle", "done" } /\ (pc'[t] # pc[t] \/ req'[t] # req[t])

\* What the step that was taken adds to the history of the run.
Observe ==
    /\ read_failed' =
           [t \in Threads |->
               IF Begins(t) THEN FALSE
               ELSE IF pc[t] = "read" /\ pc'[t] = "loaded" THEN TRUE
               ELSE read_failed[t]]
    /\ after_reload' =
           [t \in Threads |->
               IF \E u \in Threads : Begins(u) /\ req'[u].kind = "reload" THEN FALSE
               ELSE IF Begins(t)
                    THEN /\ reloaded.done
                         /\ \A u \in Threads \ { t } :
                               req[u].kind = "reload" => pc[u] = "done"
                    ELSE after_reload[t]]
    /\ last_read' =
           IF \E t \in Threads : pc[t] = "read" /\ pc'[t] = "store"
           THEN ReadCsv(file)
           ELSE last_read
    /\ reloaded' =
           IF \E t \in Threads : req[t].kind = "reload" /\ pc[t] = "loaded" /\ pc'[t] = "done"
           THEN [done |-> TRUE,
                 data |-> data[CHOOSE t \in Threads :
                              req[t].kind = "reload" /\ pc[t] = "loaded" /\ pc'[t] = "done"]]
           ELSE reloaded

\* The same threads, with the history of the run kept beside them.
NextObserved ==
    \/ Mutate(ServerFiles) /\ Observe
    \/ \E t \in Threads, r \in ServerRequests : Begin(t, r) /\ Observe
    \/ \E t \in Threads : ReloadClear(t) /\ Observe
    \/ \E t \in Threads : LoadTest(t) /\ Observe
    \/ \E t \in Threads : LoadRead(t) /\ Observe
    \/ \E t \in Threads : LoadStore(t) /\ Observe
    \/ \E t \in Threads : LoadReturn(t) /\ Observe
    \/ \E t \in Threads : ReloadRespond(t) /\ Observe
    \/ \E t \in Threads : SubfieldsGroup(t) /\ Observe
    \/ \E t \in Threads : SubfieldsTotals(t) /\ Observe

SpecObserved == Init /\ [][NextObserved]_vars

\* One handler at a time, every view, over every table of up to MaxRows rows;
\* the persisted table stays as it is.
QueryThreads == { t \in Threads : \A u \in Threads : t <= u }

InitQuery == ServerInit(QueryFiles) /\ run = NoRun

NextQuery ==
    \/ \E t \in QueryThreads, r \in QueryRequests : Begin(t, r) /\ Unobserved
    \/ \E t \in QueryThreads : ReloadClear(t) /\ Unobserved
    \/ \E t \in QueryThreads : LoadTest(t) /\ Unobserved
    \/ \E t \in QueryThreads : LoadRead(t) /\ Unobserved
    \/ \E t \in QueryThreads : LoadStore(t) /\ Unobserved
    \/ \E t \in QueryThreads : LoadReturn(t) /\ Unobserved
    \/ \E t \in QueryThreads : ReloadRespond(t) /\ Unobserved
    \/ \E t \in QueryThreads : SubfieldsGroup(t) /\ Unobserved
    \/ \E t \in QueryThreads : SubfieldsTotals(t) /\ Unobserved
    \/ \E t \in QueryThreads : Compute(t) /\ Unobserved

SpecQuery == InitQuery /\ [][NextQuery]_vars

\* ------------------------------------------------------------- the collector
\* TARGET_FIELDS, in the order the dict is walked.
TARGET_FIELDS ==
    << << "Chemical Engineering", "15" >>, << "Chemistry", "16" >>,
       << "Computer Science", "17" >>, << "Earth and Planetary Sciences", "19" >>,
       << "Energy", "21" >>, << "Engineering", "22" >>,
       << "Environmental Science", "23" >>, << "Materials Science", "25" >>,
       << "Mathematics", "26" >>, << "Physics and Astronomy", "31" >> >>
FieldsWalked == Head_n(TARGET_FIELDS, NumFields)

\* One group of a grouped query: its key (a URL, as its segments between the
\* slashes), display name and count.
Group(key, name, count) == [key |-> key, key_display_name |-> name, count |-> count]
\* key.split('/')[-1]
KeyId(key) == key[Len(key)]

\* What a grouped query may answer: up to MaxGroups groups, each key once.
Answers(groups) ==
    { a \in UNION { [1..k -> groups] : k \in 0..MaxGroups } :
        \A i, j \in DOMAIN a : i # j => a[i].key # a[j].key }

SubfieldAnswers ==
    Answers({ Group(<< "openalex.org", "subfields", "1702" >>, "S1", 9),
              Group(<< "openalex.org", "subfields", "1702" >>, "S1", 4),
              Group(<< "openalex.org", "subfields", "2208" >>, "S2", 4) })
FunderAnswers ==
    Answers({ Group(<< "openalex.org", "F1" >>, "A", 5),
              Group(<< "openalex.org", "F2" >>, "C", 8) })
TopicAnswers ==
    { << >>, << Group(<< "openalex.org", "T1" >>, "A", 3) >> }

\* Lines 115-124: topics_list from topic_groups[:10]
TopicsOf(topic_groups) ==
    [ i \in 1..Len(Head_n(topic_groups, FetchTopicCap)) |->
        Topic(KeyId(topic_groups[i].key), topic_groups[i].key_display_name,
              topic_groups[i].count) ]

\* Lines 127-137: the record of one funder of one subfield of one field.
Record(field, subfield_group, funder_group, topic_groups) ==
    [field_id |-> field[2], field_name |-> field[1],
     subfield_id |-> KeyId(subfield_group.key),
     subfield_name |-> subfield_group.key_display_name,
     subfield_works_count |-> subfield_group.count,
     funder_id |-> KeyId(funder_group.key),
     funder_name |-> funder_group.key_display_name,
     funder_works_count |-> funder_group.count,
     topics |-> TopicsText("list", TopicsOf(topic_groups))]

Running(at, f, sgs, s, fgs, g, all_data) ==
    [pc |-> at, field |-> f, subfield_groups |-> sgs, subfield |-> s,
     funder_groups |-> fgs, funder |-> g, all_data |-> all_data]

\* Line 53: all_data = [], before the first field.
InitCollect ==
    /\ ServerInit({ MissingFile })
    /\ run = Running("field", 1, << >>, 1, << >>, 1, << >>)

\* The next iteration of the loop over TARGET_FIELDS (after `continue`, after
\* the except branch of lines 144-146, or at the end of the loop body), or
\* line 148 when the fields are exhausted.
NextField(r) ==
    IF r.field < Len(FieldsWalked)
    THEN Running("field", r.field + 1, << >>, 1, << >>, 1, r.all_data)
    ELSE Running("done", r.field, << >>, 1, << >>, 1, r.all_data)

\* The next iteration of the loop over subfield_groups[:20].
NextSubfield(r) ==
    IF r.subfield < Len(r.subfield_groups)
    THEN Running("subfield", r.field, r.subfield_groups, r.subfield + 1, << >>, 1, r.all_data)
    ELSE NextField(r)

\* Lines 61-77: the subfields of the field are fetched; the query may raise.
FetchSubfields ==
    /\ run.pc = "field"
    /\ \/ run' = NextField(run)
       \/ \E subfield_groups \in SubfieldAnswers :
            run' = IF subfield_groups = << >>
                   THEN NextField(run)
                   ELSE Running("subfield", run.field,
                                Head_n(subfield_groups, FetchSubfieldCap), 1,
                                << >>, 1, run.all_data)
    /\ UNCHANGED server_vars

\* Lines 78-98: the funders of the subfield are fetched; the query may raise.
FetchFunders ==
    /\ run.pc = "subfield"
    /\ \/ run' = NextField(run)
       \/ \E funder_groups \in FunderAnswers :
            run' = IF funder_groups = << >>
                   THEN NextSubfield(run)
                   ELSE Running("funder", run.field, run.subfield_groups, run.subfield,
                                Head_n(funder_groups, FetchFunderCap), 1, run.all_data)
    /\ UNCHANGED server_vars

\* Lines 99-139: the topics of the funder are fetched (the query may raise)
\* and the record is appended; lines 141-142 after the last funder.
FetchTopics ==
    /\ run.pc = "funder"
    /\ \/ run' = NextField(run)
       \/ \E topic_groups \in TopicAnswers :
            LET all_data ==
                    Append(run.all_data,
                           Record(FieldsWalked[run.field],
                                  run.subfield_groups[run.subfield],
                                  run.funder_groups[run.funder], topic_groups))
            IN  run' = IF run.funder < Len(run.funder_groups)
                       THEN Running("funder", run.field, run.subfield_groups,
                                    run.subfield, run.funder_groups, run.funder + 1,
                                    all_data)
                       ELSE NextSubfield([run EXCEPT !.all_data = all_data])
    /\ UNCHANGED server_vars

NextCollect == FetchSubfields \/ FetchFunders \/ FetchTopics

SpecCollect == InitCollect /\ [][NextCollect]_vars


\* -------------------------------------------------------------------- claims
Quiescent == \A t \in Threads : pc[t] \in { "idle", "done" }

\* The request names no value for a filter its view requires.
LacksFilter(r) ==
    \/ r.kind = "subfields" /\ ~r.field_id.given
    \/ r.kind = "funders" /\ ~r.subfield_id.given
    \/ r.kind = "topics" /\ (~r.funder_id.given \/ ~r.subfield_id.given)

\* Thread t has answered a view request that reached load_data().
Served(t) == pc[t] = "done" /\ req[t].kind \in Views /\ ~LacksFilter(req[t])

\* C1: a view request that began strictly after a POST /api/reload completed
\* (no other reload begun since) is answered from the table that reload read.
C1_ReloadObserved ==
    \A t \in Threads :
        (Served(t) /\ after_reload[t] /\ ~IsNone(reloaded.data))
            => data[t] = reloaded.data

C3_ReloadStatus ==
    \A t \in Threads :
        (pc[t] = "done" /\ req[t].kind = "reload") =>
            /\ resp[t].status = 200 => ~read_failed[t]
            /\ read_failed[t] => (resp[t].status = 500 /\ resp[t].error # "")

\* C4: in every cache state a Subfields, Funders or Topics request that lacks
\* a required filter is answered 400 with an error field (not 500, not a
\* fault), and taking it leaves the cache as it was.
C4_Answer ==
    \A t \in Threads :
        (pc[t] = "done" /\ LacksFilter(req[t])) =>
            /\ resp[t].status = 400
            /\ resp[t].kind = "error"
            /\ resp[t].error # ""
C4_Step ==
    \A t \in Threads :
        (pc[t] \in { "idle", "done" } /\ LacksFilter(req'[t])) =>
            /\ pc'[t] = "done"
            /\ data_cache' = data_cache
C4_MissingParameter == [](C4_Answer) /\ [][C4_Step]_vars

\* A Topics request without subfield_id answered 400 while a snapshot is cached.
C4_Witness ==
    \E t \in Threads :
        /\ pc[t] = "done" /\ req[t].kind = "topics"
        /\ req[t].funder_id.given /\ ~req[t].subfield_id.given
        /\ resp[t].status = 400
        /\ ~IsNone(data_cache)

\* The parsed topic entries of the rows of thread t's frame that match its
\* Topics request.
MatchingTopics(t) ==
    UNION { Range(r.topics.items) :
              r \in { x \in Range(data[t].rows) :
                        /\ x.funder_id = req[t].funder_id.text
                        /\ x.subfield_id = IntOf(req[t].subfield_id)
                        /\ x.topics.form = "list" } }

\* C5: the Topics view returns at most 10 records, no two with the same
\* topic_id, ordered by topic_works_count descending, and each returned
\* record is the matching entry of its topic_id with the highest count.
C5_Topics ==
    \A t \in Threads :
        (Served(t) /\ req[t].kind = "topics" /\ resp[t].kind = "list") =>
            LET out == resp[t].data
            IN  /\ Len(out) <= 10
                /\ resp[t].count = Len(out)
                /\ \A i, j \in DOMAIN out : i # j => out[i].topic_id # out[j].topic_id
                /\ \A i, j \in DOMAIN out :
                      i < j => out[i].topic_works_count >= out[j].topic_works_count
                /\ \A i \in DOMAIN out :
                      /\ out[i] \in MatchingTopics(t)
                      /\ \A x \in MatchingTopics(t) :
                            x.topic_id = out[i].topic_id
                                => x.topic_works_count <= out[i].topic_works_count

\* More than 10 distinct topics matched, one of them in two rows with
\* different counts, and 10 were returned.
C5_Witness ==
    \E t \in Threads :
        /\ Served(t) /\ req[t].kind = "topics" /\ resp[t].kind = "list"
        /\ resp[t].count = 10
        /\ Cardinality({ x.topic_id : x \in MatchingTopics(t) }) > 10
        /\ \E x, y \in MatchingTopics(t) :
              x.topic_id = y.topic_id /\ x.topic_works_count # y.topic_works_count

\* C6: the Funders view returns at most 20 records ordered by
\* funder_works_count descending, no two of them with the same funder_id.
C6_Funders ==
    \A t \in Threads :
        (Served(t) /\ req[t].kind = "funders" /\ resp[t].kind = "list") =>
            LET out == resp[t].data
            IN  /\ Len(out) <= 20
                /\ \A i, j \in DOMAIN out : i < j => out[i].works_count >= out[j].works_count
                /\ \A i, j \in DOMAIN out : i # j => out[i].id # out[j].id

\* A row whose topics cell is a list of topic records.
WellFormed(r) ==
    /\ r.topics.form = "list"
    /\ \A i \in DOMAIN r.topics.items : r.topics.items[i].kind = "topic"

\* C7: in the Topics view a matching row whose topics cell is malformed
\* (unparsable, empty, or parsed but no list of topic records) contributes no
\* topic and does not abort: the answer is 200 with the topics of the other
\* matching rows.
C7_MalformedSkipped ==
    \A t \in Threads :
        (/\ Served(t) /\ req[t].kind = "topics"
         /\ ~IsNone(data[t]) /\ ~IsEmpty(data[t])) =>
            resp[t] =
                Listing(topics_list(SelectSeq(
                    TopicRows(data[t].rows, req[t].funder_id.text,
                              IntOf(req[t].subfield_id)),
                    WellFormed)))

\* The filters of the request match no row of the rows given.
NoMatch(r, rows) ==
    CASE r.kind = "subfields" -> FieldData(rows, IntOf(r.field_id)) = << >>
      [] r.kind = "funders" -> SubfieldData(rows, IntOf(r.subfield_id)) = << >>
      [] r.kind = "topics" ->
            TopicRows(rows, r.funder_id.text, IntOf(r.subfield_id)) = << >>
      [] OTHER ->
            SelectSeq(ApplyFilters(rows, r),
                      LAMBDA x : Not(r.topic_id) \/ HasTopic(x, r.topic_id.text)) = << >>

\* Every filter the request gives that must be a number is one.
Numeric(r) ==
    /\ r.kind \in { "subfields", "research" } /\ ~Not(r.field_id) => ~IntRaises(r.field_id)
    /\ r.kind \in { "funders", "topics", "research" } /\ ~Not(r.subfield_id)
           => ~IntRaises(r.subfield_id)

\* C8: once the persisted table was read, a view whose filters match no rows
\* answers 200 with count 0 and no data, also when the table has no rows.
C8_EmptyResult ==
    \A t \in Threads :
        (/\ Served(t) /\ ~MissingParameter(req[t]) /\ Numeric(req[t])
         /\ ~IsNone(data[t]) /\ NoMatch(req[t], data[t].rows)) =>
            resp[t] = Listing(<< >>)

\* C9: in the records of one collection run, two records with the same
\* subfield_id carry the same subfield_works_count.
C9_SubfieldCount ==
    run.pc # "off" =>
        \A i, j \in DOMAIN run.all_data :
            run.all_data[i].subfield_id = run.all_data[j].subfield_id
                => run.all_data[i].subfield_works_count
                       = run.all_data[j].subfield_works_count

\* C10: last successfully loaded file wins: when no handler is running the
\* cache holds the frame of the most recent read that succeeded; a reload
\* whose re-read failed has not discarded it.
C10_LastLoadWins ==
    (Quiescent /\ ~IsNone(last_read)) => data_cache = last_read


====
